---- MODULE Spec2Model ----
(***************************************************************************)
(* Model of pdf-to-beamer.py: the driver main(), the artifact writer       *)
(* create_latex_document() and the assembler concat_beamer_files().        *)
(*                                                                         *)
(* Text (file names, markup, file contents) is a sequence of one-character *)
(* strings; the two fixed literals (preamble, postamble) are one element   *)
(* each.  A directory is a function from file name to file content; the    *)
(* order os.listdir returns is chosen afresh at each listing.              *)
(***************************************************************************)
EXTENDS Integers, Sequences, FiniteSets, TLC

VARIABLES
    pc,          \* position in main(): "extract", "loop", "rasterized",
                 \* "generated", "writing", "done", "aborted", "interrupted";
                 \* "harness" when the writer and assembler are called directly
    err,         \* class of the exception that ended the run, or NoError
    file_name,   \* main's file_name (the stem of pdf_path)
    pageCount,   \* len(doc) = len(content)
    i,           \* main's loop index
    frame_code,  \* main's frame_code (the generator's last answer), or None
    beamers,     \* directory {file_name}_beamers: file name -> content
    temp,        \* directory {file_name}_temp: the n of each page_{n}.jpg
    full,        \* content of {file_name}_full.tex, or None when absent
    markup,      \* history: page index -> frame last passed to the writer
    calls,       \* history: number of calls of extract / generate / concat
    rewrite,     \* history: kinds of overwrite the writer has performed
    present      \* history: number k of artifacts 0..k-1 present at start

vars == <<pc, err, file_name, pageCount, i, frame_code, beamers, temp, full,
          markup, calls, rewrite, present>>

(***************************************************************************)
(* Bounds of the model.                                                    *)
(***************************************************************************)
MaxPages == 30
MaxPrefix == 2
MaxAsmPage == 10
MaxFiles == 2

(***************************************************************************)
(* The program's constant: main skips every page with i <= 27.             *)
(***************************************************************************)
SkipThrough == 27

\* Python's None, where a text may stand; and the absence of an exception
None == <<"None">>
NoError == "NoError"
\* the backquote character (U+0060), which a TLA+ string cannot hold
BQ == "bq"
NL == <<"\n">>
Digit == <<"0", "1", "2", "3", "4", "5", "6", "7", "8", "9">>
DigitChars == {Digit[k] : k \in 1..10}

PageTag == <<"_", "p", "a", "g", "e", "_">>
TexExt == <<".", "t", "e", "x">>
BeamersSuffix == <<"_", "b", "e", "a", "m", "e", "r", "s">>
FenceLatex == <<BQ, BQ, BQ, "l", "a", "t", "e", "x">>
Fence == <<BQ, BQ, BQ>>
Preamble == <<"\\documentclass{beamer}\n    \\usepackage{textpos}\n    \\usepackage{graphicx}\n    \\begin{document}\n    ">>
Postamble == <<"\\end{document}">>

(***************************************************************************)
(* Inputs: the paths main is called with, the generator's answers, and     *)
(* files that are no artifacts and may lie in the artifact directory.      *)
(***************************************************************************)
PdfPaths ==
    { <<"d", "\\", "a", ".", "p", "d", "f">>,
      <<"a", "_", "p", "a", "g", "e", "_", "1", ".", "v", "2", ".", "p", "d", "f">> }

Frames ==
    { <<"A">>,
      <<BQ, BQ, BQ, "l", "a", "t", "e", "x", "B", "C", BQ, BQ, BQ>> }

NotesTex == <<"n", ".", "t", "e", "x">>
NotesLog == <<"n", ".", "l", "o", "g">>
StrayFiles == {NotesTex, NotesLog}

(***************************************************************************)
(* String helpers.                                                         *)
(***************************************************************************)
HasAt(s, p, pat) ==
    /\ p >= 1
    /\ p + Len(pat) - 1 <= Len(s)
    /\ SubSeq(s, p, p + Len(pat) - 1) = pat

\* s.endswith(pat)
EndsWith(s, pat) == HasAt(s, Len(s) - Len(pat) + 1, pat)

\* s.split(sep)[-1]: what follows the last sep
SplitLast(s, sep) ==
    LET ps == {p \in 1..Len(s) : s[p] = sep}
    IN  IF ps = {} THEN s
        ELSE LET last == CHOOSE p \in ps : \A q \in ps : q <= p
             IN  SubSeq(s, last + 1, Len(s))

\* s.split(sep)[0]: what precedes the first sep
SplitFirst(s, sep) ==
    LET ps == {p \in 1..Len(s) : s[p] = sep}
    IN  IF ps = {} THEN s
        ELSE LET first == CHOOSE p \in ps : \A q \in ps : p <= q
             IN  SubSeq(s, 1, first - 1)

\* str(n) for n >= 0
RECURSIVE Str(_)
Str(n) == IF n < 10 THEN <<Digit[n + 1]>>
          ELSE Str(n \div 10) \o <<Digit[(n % 10) + 1]>>

DigitValue(c) == (CHOOSE k \in 1..10 : Digit[k] = c) - 1

\* int(s) for a string of decimal digits
RECURSIVE ParseInt(_)
ParseInt(s) == IF Len(s) = 0 THEN 0
          ELSE 10 * ParseInt(SubSeq(s, 1, Len(s) - 1)) + DigitValue(s[Len(s)])

\* re.sub(pat, "", s) for a literal pattern: every leftmost non-overlapping
\* occurrence is removed
RECURSIVE ReSub(_, _)
ReSub(pat, s) ==
    IF Len(s) = 0 THEN <<>>
    ELSE IF HasAt(s, 1, pat) THEN ReSub(pat, SubSeq(s, Len(pat) + 1, Len(s)))
    ELSE <<Head(s)>> \o ReSub(pat, Tail(s))

\* length of the run of digits of s that starts at p
RECURSIVE DigitRun(_, _)
DigitRun(s, p) ==
    IF p <= Len(s) /\ s[p] \in DigitChars THEN 1 + DigitRun(s, p + 1) ELSE 0

\* the pattern _page_(\d+)\.tex matches s at position p
MatchAt(s, p) ==
    /\ HasAt(s, p, PageTag)
    /\ LET d == DigitRun(s, p + Len(PageTag))
       IN  d >= 1 /\ HasAt(s, p + Len(PageTag) + d, TexExt)

\* the pattern _page_(\d+) alone matches s at position p
MatchAtNoExt(s, p) ==
    /\ HasAt(s, p, PageTag)
    /\ DigitRun(s, p + Len(PageTag)) >= 1

\* re.search(r"_page_(\d+)", s): group(1) of the leftmost match, without
\* the extension being part of the pattern
RegexSearchNoExt(s) ==
    LET ps == {p \in 1..Len(s) : MatchAtNoExt(s, p)}
    IN  IF ps = {} THEN None
        ELSE LET p == CHOOSE q \in ps : \A r \in ps : q <= r
                 b == p + Len(PageTag)
             IN  SubSeq(s, b, b + DigitRun(s, b) - 1)

\* re.search(r"_page_(\d+)\.tex", s): group(1) of the leftmost match, or None
RegexSearch(s) ==
    LET ps == {p \in 1..Len(s) : MatchAt(s, p)}
    IN  IF ps = {} THEN None
        ELSE LET p == CHOOSE q \in ps : \A r \in ps : q <= r
                 b == p + Len(PageTag)
             IN  SubSeq(s, b, b + DigitRun(s, b) - 1)

(***************************************************************************)
(* main: names derived from pdf_path.                                      *)
(***************************************************************************)
FileName(pdf_path) == SplitFirst(SplitLast(pdf_path, "\\"), ".")

BeamersDir(stem) == stem \o BeamersSuffix

\* the base name of f'{file_name}_beamers/{file_name}_page_{i}.tex'
ArtifactName(stem, n) == stem \o PageTag \o Str(n) \o TexExt

\* os.path.join(output_dir, f)
PathJoin(dir, f) == dir \o <<"/">> \o f

(***************************************************************************)
(* create_latex_document.                                                  *)
(***************************************************************************)
CleanFrame(frame) == ReSub(Fence, ReSub(FenceLatex, frame))

\* open(output_file, "a"): an existing file keeps its content
OpenAppend(dir, fn) ==
    [f \in DOMAIN dir \cup {fn} |-> IF f \in DOMAIN dir THEN dir[f] ELSE <<>>]

\* open(output_file, "w"): the file is created, or truncated when it exists
OpenWrite(dir, fn) ==
    [f \in DOMAIN dir \cup {fn} |-> IF f = fn THEN <<>> ELSE dir[f]]

\* f.write(text) and the close that ends the with block
WriteClose(dir, fn, text) ==
    [f \in DOMAIN dir |-> IF f = fn THEN dir[f] \o text ELSE dir[f]]

CreateLatexDocument(dir, frame, fn) ==
    WriteClose(OpenWrite(dir, fn), fn, CleanFrame(frame) \o NL)

(***************************************************************************)
(* concat_beamer_files.                                                    *)
(***************************************************************************)
RECURSIVE Perms(_)
Perms(S) ==
    IF S = {} THEN {<<>>}
    ELSE UNION {{<<x>> \o p : p \in Perms(S \ {x})} : x \in S}

RECURSIVE SelectSeqTex(_)
\* [f for f in listing if f.endswith(".tex")]
SelectSeqTex(listing) ==
    IF listing = <<>> THEN <<>>
    ELSE (IF EndsWith(Head(listing), TexExt) THEN <<Head(listing)>> ELSE <<>>)
         \o SelectSeqTex(Tail(listing))

\* the list comprehension: the joined paths of the listed .tex files
BeamerFiles(stem, listing) ==
    LET names == SelectSeqTex(listing)
    IN  [k \in 1..Len(names) |-> PathJoin(BeamersDir(stem), names[k])]

\* the sort key of a path: the digits matched, or None when nothing matches
KeyDigits(x) == RegexSearch(x)

\* comparison of the matched digits as strings
RECURSIVE LexLE(_, _)
LexLE(a, b) ==
    IF a = <<>> THEN TRUE
    ELSE IF b = <<>> THEN FALSE
    ELSE IF Head(a) = Head(b) THEN LexLE(Tail(a), Tail(b))
    ELSE DigitValue(Head(a)) < DigitValue(Head(b))

KeyLEText(a, b) == LexLE(a, b)

\* comparison of two sort keys: int(...) of the matched digits
KeyLE(a, b) == ParseInt(a) <= ParseInt(b)

\* insertion of e = <<key, path>> into s after every entry whose key is <= its own
RECURSIVE InsertSorted(_, _)
InsertSorted(s, e) ==
    IF s = <<>> THEN <<e>>
    ELSE IF KeyLE(Head(s)[1], e[1]) THEN <<Head(s)>> \o InsertSorted(Tail(s), e)
    ELSE <<e>> \o s

\* sorted(xs, key=...): a stable sort of the <<key, path>> pairs
RECURSIVE SortedPairs(_)
SortedPairs(es) ==
    IF es = <<>> THEN <<>>
    ELSE InsertSorted(SortedPairs(SubSeq(es, 1, Len(es) - 1)), es[Len(es)])

Keyed(xs) == [k \in 1..Len(xs) |-> <<KeyDigits(xs[k]), xs[k]>>]

\* the key function raises AttributeError (None has no group) on some path
KeyFails(xs) == \E k \in 1..Len(xs) : KeyDigits(xs[k]) = None

\* the base name of a joined path
BaseName(stem, x) == SubSeq(x, Len(BeamersDir(stem)) + 2, Len(x))

\* the bodies written between preamble and postamble
RECURSIVE Bodies(_, _, _)
Bodies(dir, stem, es) ==
    IF es = <<>> THEN <<>>
    ELSE dir[BaseName(stem, Head(es)[2])] \o NL \o Bodies(dir, stem, Tail(es))

ConcatOutput(dir, stem, xs) ==
    Preamble \o NL \o Bodies(dir, stem, SortedPairs(Keyed(xs))) \o Postamble \o NL

(***************************************************************************)
(* Initial states of a run of main: the state after the three makedirs     *)
(* calls.  The artifact directory holds the artifacts of pages 0..k-1 left *)
(* by an earlier run.                                                      *)
(***************************************************************************)
OldBody == CleanFrame(<<"A">>) \o NL

InitialDir(stem, k) ==
    [f \in {ArtifactName(stem, p) : p \in 0..(k - 1)} |-> OldBody]

NoMarkup == [p \in {} |-> None]

Init ==
    /\ pc = "extract"
    /\ err = NoError
    /\ \E path \in PdfPaths : file_name = FileName(path)
    /\ pageCount \in 0..MaxPages
    /\ i = 0
    /\ frame_code = None
    /\ present \in 0..MaxPrefix
    /\ beamers = InitialDir(file_name, present)
    /\ temp = {}
    /\ full = None
    /\ markup = NoMarkup
    /\ calls = [extract |-> 0, generate |-> 0, concat |-> 0]
    /\ rewrite = {}

(***************************************************************************)
(* main, line 168: content = extract_pdf_content(...)                      *)
(***************************************************************************)
ExtractPdfContent ==
    /\ pc = "extract"
    /\ pc' = "loop"
    /\ i' = 0
    /\ calls' = [calls EXCEPT !.extract = @ + 1]
    /\ UNCHANGED <<err, file_name, pageCount, frame_code, beamers, temp, full,
                   markup, rewrite, present>>

(***************************************************************************)
(* main, lines 170-172: the loop head and the skip of pages 0..27          *)
(***************************************************************************)
SkipPage ==
    /\ pc = "loop"
    /\ i < pageCount
    /\ i <= SkipThrough
    /\ i' = i + 1
    /\ UNCHANGED <<pc, err, file_name, pageCount, frame_code, beamers, temp,
                   full, markup, calls, rewrite, present>>

(***************************************************************************)
(* main, line 175: convert_page_to_image writes page_{page_num+1}.jpg, or  *)
(* raises, which ends main                                                 *)
(***************************************************************************)
ConvertPageToImage ==
    /\ pc = "loop"
    /\ i < pageCount
    /\ i > SkipThrough
    /\ temp' = temp \cup {i + 1}
    /\ pc' = "rasterized"
    /\ UNCHANGED <<err, file_name, pageCount, i, frame_code, beamers, full,
                   markup, calls, rewrite, present>>

ConvertFails ==
    /\ pc = "loop"
    /\ i < pageCount
    /\ i > SkipThrough
    /\ pc' = "aborted"
    /\ err' = "PDFPageCountError"
    /\ UNCHANGED <<file_name, pageCount, i, frame_code, beamers, temp, full,
                   markup, calls, rewrite, present>>

(***************************************************************************)
(* main, line 178: generate_beamer_frame returns the service's answer, or  *)
(* the client raises, which ends main (no handler, no retry loop)          *)
(***************************************************************************)
GenerateBeamerFrame ==
    /\ pc = "rasterized"
    /\ \E f \in Frames : frame_code' = f
    /\ pc' = "generated"
    /\ calls' = [calls EXCEPT !.generate = @ + 1]
    /\ UNCHANGED <<err, file_name, pageCount, i, beamers, temp, full, markup,
                   rewrite, present>>

\* the failing call leaves an empty artifact behind
GenerateFailsWriting ==
    /\ pc = "rasterized"
    /\ pc' = "aborted"
    /\ err' = "APIError"
    /\ calls' = [calls EXCEPT !.generate = @ + 1]
    /\ beamers' = OpenWrite(beamers, ArtifactName(file_name, i))
    /\ UNCHANGED <<file_name, pageCount, i, frame_code, temp, full, markup,
                   rewrite, present>>

GenerateFails ==
    /\ pc = "rasterized"
    /\ pc' = "aborted"
    /\ err' = "APIError"
    /\ calls' = [calls EXCEPT !.generate = @ + 1]
    /\ UNCHANGED <<file_name, pageCount, i, frame_code, beamers, temp, full,
                   markup, rewrite, present>>

(***************************************************************************)
(* main, lines 183-184 and create_latex_document: the open that truncates, *)
(* then the write and close; the process may be stopped in between         *)
(***************************************************************************)
RewriteKind(dir, fn, text) ==
    IF fn \notin DOMAIN dir THEN {}
    ELSE IF dir[fn] = text THEN {"same"} ELSE {"different"}

OpenArtifact ==
    /\ pc = "generated"
    /\ LET fn == ArtifactName(file_name, i)
       IN  /\ rewrite' = rewrite \cup
                  RewriteKind(beamers, fn, CleanFrame(frame_code) \o NL)
           /\ beamers' = OpenWrite(beamers, fn)
    /\ pc' = "writing"
    /\ UNCHANGED <<err, file_name, pageCount, i, frame_code, temp, full,
                   markup, calls, present>>

WriteArtifact ==
    /\ pc = "writing"
    /\ beamers' = WriteClose(beamers, ArtifactName(file_name, i),
                             CleanFrame(frame_code) \o NL)
    /\ markup' = (i :> frame_code) @@ markup
    /\ pc' = "loop"
    /\ i' = i + 1
    /\ UNCHANGED <<err, file_name, pageCount, frame_code, temp, full, calls,
                   rewrite, present>>

InterruptWrite ==
    /\ pc = "writing"
    /\ pc' = "interrupted"
    /\ UNCHANGED <<err, file_name, pageCount, i, frame_code, beamers, temp,
                   full, markup, calls, rewrite, present>>

(***************************************************************************)
(* main, line 189 and concat_beamer_files: the listing comes in any order; *)
(* the sort key raises before the output file is opened                    *)
(***************************************************************************)
ConcatBeamerFiles(next) ==
    \E listing \in Perms(DOMAIN beamers) :
        LET xs == BeamerFiles(file_name, listing)
        IN  /\ calls' = [calls EXCEPT !.concat = @ + 1]
            /\ IF KeyFails(xs)
               THEN /\ pc' = "aborted"
                    /\ err' = "AttributeError"
                    /\ full' = full
               ELSE /\ pc' = next
                    /\ err' = err
                    /\ full' = ConcatOutput(beamers, file_name, xs)

Concat ==
    /\ pc = "loop"
    /\ i = pageCount
    /\ ConcatBeamerFiles("done")
    /\ UNCHANGED <<file_name, pageCount, i, frame_code, beamers, temp, markup,
                   rewrite, present>>

Next ==
    \/ ExtractPdfContent
    \/ SkipPage
    \/ ConvertPageToImage
    \/ ConvertFails
    \/ GenerateBeamerFrame
    \/ GenerateFails
    \/ OpenArtifact
    \/ WriteArtifact
    \/ InterruptWrite
    \/ Concat

Spec == Init /\ [][Next]_vars

(***************************************************************************)
(* The writer and the assembler called directly, on any page index, for a  *)
(* directory of at most MaxFiles files.                                    *)
(***************************************************************************)
InitUnit ==
    /\ pc = "harness"
    /\ err = NoError
    /\ \E path \in PdfPaths : file_name = FileName(path)
    /\ pageCount = 0
    /\ i = 0
    /\ frame_code = None
    /\ present = 0
    /\ beamers = InitialDir(file_name, 0)
    /\ temp = {}
    /\ full = None
    /\ markup = NoMarkup
    /\ calls = [extract |-> 0, generate |-> 0, concat |-> 0]
    /\ rewrite = {}

UnitCreate ==
    /\ pc = "harness"
    /\ \E p \in 0..MaxAsmPage, f \in Frames :
        LET fn == ArtifactName(file_name, p)
        IN  /\ fn \in DOMAIN beamers \/ Cardinality(DOMAIN beamers) < MaxFiles
            /\ rewrite' = rewrite \cup
                   RewriteKind(beamers, fn, CleanFrame(f) \o NL)
            /\ beamers' = CreateLatexDocument(beamers, f, fn)
            /\ markup' = (p :> f) @@ markup
    /\ UNCHANGED <<pc, err, file_name, pageCount, i, frame_code, temp, full,
                   calls, present>>

UnitStray ==
    /\ pc = "harness"
    /\ Cardinality(DOMAIN beamers) < MaxFiles
    /\ \E s \in StrayFiles \ DOMAIN beamers :
           beamers' = (s :> <<"x">>) @@ beamers
    /\ UNCHANGED <<pc, err, file_name, pageCount, i, frame_code, temp, full,
                   markup, calls, rewrite, present>>

UnitConcat ==
    /\ pc = "harness"
    /\ ConcatBeamerFiles("done")
    /\ UNCHANGED <<file_name, pageCount, i, frame_code, beamers, temp, markup,
                   rewrite, present>>

NextUnit == UnitCreate \/ UnitStray \/ UnitConcat

SpecUnit == InitUnit /\ [][NextUnit]_vars

(***************************************************************************)
(* Definitions the properties share.                                       *)
(***************************************************************************)
MaxIndex == IF MaxPages > MaxAsmPage THEN MaxPages ELSE MaxAsmPage

IsArtifact(f) == \E p \in 0..MaxIndex : f = ArtifactName(file_name, p)

Artifacts == {f \in DOMAIN beamers : IsArtifact(f)}

\* the bodies of the artifacts present, page 0 first, each followed by a newline
RECURSIVE AscendingBodies(_)
AscendingBodies(p) ==
    IF p > MaxIndex THEN <<>>
    ELSE (IF ArtifactName(file_name, p) \in DOMAIN beamers
          THEN beamers[ArtifactName(file_name, p)] \o NL ELSE <<>>)
         \o AscendingBodies(p + 1)

ExpectedFull == Preamble \o NL \o AscendingBodies(0) \o Postamble \o NL

FullBodies == {CleanFrame(f) \o NL : f \in Frames}

Ended == pc \in {"done", "aborted"}

(***************************************************************************)
(* C1: when the generation of a page fails, the page is marked failed and  *)
(* the driver goes on with the next page, so that the run still ends by    *)
(* assembling the final document from the artifacts of the other pages.    *)
(***************************************************************************)
C1_FailureIsolation ==
    err = "APIError" =>
        /\ pc \in {"loop", "rasterized", "generated", "writing", "done"}
        /\ pc = "done" => full = ExpectedFull

(***************************************************************************)
(* C2: whatever order the directory listing returns the artifact files in, *)
(* the final document holds their bodies in ascending numeric order of the *)
(* page number in the file name.                                           *)
(***************************************************************************)
C2_AssemblyOrder == pc = "done" => full = ExpectedFull

C2_Witness ==
    /\ pc = "done"
    /\ ArtifactName(file_name, 9) \in DOMAIN beamers
    /\ ArtifactName(file_name, 10) \in DOMAIN beamers
    /\ full = Preamble \o NL
              \o beamers[ArtifactName(file_name, 9)] \o NL
              \o beamers[ArtifactName(file_name, 10)] \o NL
              \o Postamble \o NL

(***************************************************************************)
(* C3: with artifacts for exactly pages 0..k-1 present at the start, a     *)
(* completed run has generated and written exactly the pages k..pageCount-1*)
(* (its start index is k).                                                 *)
(***************************************************************************)
C3_ResumeAtFirstMissing ==
    pc = "done" => DOMAIN markup = present..(pageCount - 1)

(***************************************************************************)
(* C4: a run over n pages in which every step succeeds (here one that      *)
(* starts with no artifact on disk) ends with a final document of          *)
(* preamble, the n bodies of pages 0..n-1 in ascending order, postamble.   *)
(***************************************************************************)
C4_AllPagesAssembled ==
    (pc = "done" /\ present = 0) =>
        /\ \A p \in 0..(pageCount - 1) :
               ArtifactName(file_name, p) \in DOMAIN beamers
        /\ Cardinality(Artifacts) = pageCount
        /\ full = ExpectedFull

(***************************************************************************)
(* C5: in every state, also when the run is stopped inside                 *)
(* create_latex_document, an artifact file that exists holds the full      *)
(* cleaned markup of its page: never an empty or truncated content.        *)
(***************************************************************************)
C5_AtomicWrite ==
    /\ \A f \in Artifacts : beamers[f] \in FullBodies
    /\ pc \in {"writing", "interrupted"} =>
           beamers[ArtifactName(file_name, i)] = CleanFrame(frame_code) \o NL

(***************************************************************************)
(* C6: a .tex file whose name does not match _page_<N>.tex makes           *)
(* concat_beamer_files fail with an AssemblyError; a file without the .tex *)
(* extension is excluded without failing; no artifact at all gives an      *)
(* empty body between preamble and postamble.                              *)
(***************************************************************************)
C6_AssemblyError ==
    calls.concat > 0 =>
        /\ NotesTex \in DOMAIN beamers => (pc = "aborted" /\ err = "AssemblyError")
        /\ NotesTex \notin DOMAIN beamers => (pc = "done" /\ full = ExpectedFull)
        /\ (NotesTex \notin DOMAIN beamers /\ Artifacts = {}) =>
               full = Preamble \o NL \o Postamble \o NL

(***************************************************************************)
(* C7: the page numbers parsed back out of the names of the artifact files *)
(* are exactly the page indices written, one file per index, whatever the  *)
(* stem of the source file name is.                                        *)
(***************************************************************************)
ParsedFiles ==
    {f \in DOMAIN beamers :
        /\ EndsWith(f, TexExt)
        /\ RegexSearch(PathJoin(BeamersDir(file_name), f)) # None}

ParsedPages ==
    {ParseInt(RegexSearch(PathJoin(BeamersDir(file_name), f))) : f \in ParsedFiles}

C7_RoundTrip ==
    /\ ParsedPages = DOMAIN markup
    /\ Cardinality(ParsedFiles) = Cardinality(DOMAIN markup)

C7_Witness ==
    /\ file_name = <<"a", "_", "p", "a", "g", "e", "_", "1">>
    /\ DOMAIN markup = {2, 10}
    /\ ParsedPages = {2, 10}

(***************************************************************************)
(* C8: after any sequence of writes, the artifact of a page holds exactly  *)
(* the cleaned markup of the last write for that page and a newline, and   *)
(* there is one file per page written: a second write of the same markup   *)
(* changes nothing, a write of another markup replaces the content.        *)
(***************************************************************************)
C8_WriteIdempotent ==
    /\ \A p \in DOMAIN markup :
           /\ ArtifactName(file_name, p) \in DOMAIN beamers
           /\ beamers[ArtifactName(file_name, p)] = CleanFrame(markup[p]) \o NL
    /\ Cardinality(Artifacts) = Cardinality(DOMAIN markup)
    /\ \A f \in Artifacts : beamers[f] \in {<<"A", "\n">>, <<"B", "C", "\n">>}

C8_Witness ==
    /\ pc = "harness"
    /\ rewrite = {"same", "different"}

(***************************************************************************)
(* C9: a generation call that fails is not made again for its page, and    *)
(* it leaves the artifact directory as it was: no file created, removed or *)
(* changed.                                                                *)
(***************************************************************************)
C9_FailedGenerationFrame ==
    /\ [](calls.generate <= Cardinality(temp))
    /\ [][(pc = "rasterized" /\ pc' = "aborted") => beamers' = beamers]_vars

C9_Witness ==
    /\ pc = "aborted"
    /\ err = "APIError"
    /\ i = SkipThrough + 2
    /\ ArtifactName(file_name, SkipThrough + 1) \in DOMAIN beamers
    /\ ArtifactName(file_name, i) \notin DOMAIN beamers

(***************************************************************************)
(* C10: in every run the extraction happens once, before any page is       *)
(* processed; a page is rasterized, then generated, then written; and the  *)
(* assembler is invoked exactly once, after the last page of the range.    *)
(***************************************************************************)
C10_RunOrder ==
    /\ pc # "extract" => calls.extract = 1
    /\ temp # {} => calls.extract = 1
    /\ pc \in {"generated", "writing"} => (frame_code # None /\ (i + 1) \in temp)
    /\ \A p \in DOMAIN markup : (p + 1) \in temp
    /\ calls.concat <= 1
    /\ calls.concat = 1 => i = pageCount
    /\ Ended => calls.concat = 1

====
